---- MODULE Spec2Model ----
(***************************************************************************)
(* Car Management API: the identity routes (signup, login), the token gate *)
(* and the owner-scoped car routes (create, list, search, detail, update,  *)
(* delete) over the document store and the upload directory.               *)
(*                                                                         *)
(* Strings that the code inspects character by character (titles,          *)
(* descriptions, tags, search keywords) are sequences of one-character     *)
(* strings.  A JSON object is a function from field names to values; a     *)
(* field that is absent is absent from the DOMAIN.                         *)
(***************************************************************************)
EXTENDS Integers, Sequences, FiniteSets, TLC

VARIABLES
  users,    \* the User collection: a set of account documents
  cars,     \* the Car collection: _id -> car document
  carSeq,   \* the next car _id the store hands out (ids are never reused)
  disk,     \* the image files written by the upload middleware
  req,      \* the request answered last
  res,      \* the response to it
  repeat    \* history: the request answered last repeats the one before it

vars == <<users, cars, carSeq, disk, req, res, repeat>>

----------------------------------------------------------------------------
(* Bounds of the model *)

MaxCars == 2      \* car documents ever created under Spec
MaxUploads == 1   \* car documents ever created under UploadSpec

(* Program constants *)

TokenTTL == 30    \* expiresIn: '30d', in days
SaltRounds == 10  \* bcrypt.hash(password, 10)
MaxCount == 10    \* upload.array('images', 10)

JWT_SECRET == "JWT_SECRET"

----------------------------------------------------------------------------
(* Values *)

Null == [type |-> "null"]
EmptyObject == [f \in {} |-> Null]

\* { ...a, ...b }: the fields of b win over those of a
Spread(a, b) == b @@ a

Pick(obj, fields) == [f \in (DOMAIN obj) \cap fields |-> obj[f]]

Usernames == {"alice", "bob"}
Passwords == {"pw1", "pw2"}
\* the credentials the accounts sign up with
Credentials == {<<"alice", "pw1">>, <<"bob", "pw2">>}
UserIds == 1..Cardinality(Usernames)
CarIds == 1..MaxCars

TitleAb == <<"A", "b">>
TitleC == <<"c">>
DescOk == <<"o", "k">>
TagSd == <<"S", "d">>
ImageText == <<"x">>

BodyFull == [title |-> TitleAb, description |-> DescOk, tags |-> <<TagSd>>]
BodyTitle == [title |-> TitleC]
BodyOwner(u) == Spread(BodyFull, [userId |-> u])
BodyImages == [images |-> <<ImageText>>]

----------------------------------------------------------------------------
(* Identity service: src/routes/authRoutes.js *)

\* bcrypt.hash(password, rounds): the digest records the cost it was made with
Hash(password, rounds) == [alg |-> "bcrypt", rounds |-> rounds, digest |-> password]

\* bcrypt.compare(password, hash): hashes again with the parameters of hash
Compare(password, hash) == Hash(password, hash.rounds) = hash

\* User.findOne({ username })
FindUser(username) == {u \in users : u.username = username}

\* jwt.sign({ id: user._id }, process.env.JWT_SECRET, { expiresIn: '30d' })
Sign(id, secret, ttl) == [kind |-> "jwt", id |-> id, key |-> secret, ttl |-> ttl]

\* req.query.keyword: absent (undefined), or the string given
NoKeyword == [given |-> FALSE]
Keyword(s) == [given |-> TRUE, value |-> s]

Answer(status, body) == [status |-> status, body |-> body]

Respond(request, response) ==
  /\ req' = request
  /\ res' = response
  /\ repeat' = (request = req)

Request(op, fields) == Spread([op |-> op, auth |-> Null, id |-> 0, body |-> EmptyObject,
                               upload |-> <<>>, files |-> <<>>, keyword |-> NoKeyword,
                               username |-> "", password |-> ""], fields)

\* User.create({ username, password: hashedPassword }): usernames are unique
UserCreate(username, hashedPassword) ==
  IF FindUser(username) # {}
    THEN [ok |-> FALSE, error |-> "duplicate key"]
    ELSE [ok |-> TRUE,
          user |-> [_id |-> Cardinality(users) + 1, username |-> username,
                    password |-> hashedPassword]]

SignupResponse(created) ==
  IF created.ok
    THEN Answer(201, [message |-> "User created", user |-> created.user])
    ELSE Answer(400, [message |-> "Error creating user", error |-> created.error])

Signup(username, password) ==
  LET created == UserCreate(username, Hash(password, SaltRounds)) IN
    /\ users' = IF created.ok THEN users \cup {created.user} ELSE users
    /\ Respond(Request("signup", [username |-> username, password |-> password]),
               SignupResponse(created))
    /\ UNCHANGED <<cars, carSeq, disk>>

\* mutant: an unknown username is told apart from a wrong password
LoginResponseUserNotFound(accounts, username, password) ==
  LET found == {u \in accounts : u.username = username} IN
    IF found = {} THEN Answer(404, [message |-> "User not found"])
    ELSE IF \A u \in found : ~Compare(password, u.password)
      THEN Answer(401, [message |-> "Invalid credentials"])
      ELSE Answer(200, [token |-> Sign((CHOOSE u \in found : TRUE)._id, JWT_SECRET, TokenTTL)])

LoginResponse(accounts, username, password) ==
  LET found == {u \in accounts : u.username = username} IN
    IF found = {} \/ \A u \in found : ~Compare(password, u.password)
      THEN Answer(401, [message |-> "Invalid credentials"])
      ELSE Answer(200, [token |-> Sign((CHOOSE u \in found : TRUE)._id, JWT_SECRET, TokenTTL)])

Login(username, password) ==
  /\ Respond(Request("login", [username |-> username, password |-> password]),
             LoginResponse(users, username, password))
  /\ UNCHANGED <<users, cars, carSeq, disk>>

----------------------------------------------------------------------------
(* Token gate: ../middleware/authMiddleware *)

NoToken == [kind |-> "none"]
Malformed == [kind |-> "garbage"]

\* What a request presents: a token and the days gone by since it was issued
Auth(token, age) == [token |-> token, age |-> age]

Verify(auth) ==
  /\ auth.token.kind = "jwt"
  /\ auth.token.key = JWT_SECRET
  /\ auth.age < auth.token.ttl

Unauthorized == Answer(401, [message |-> "Unauthorized"])

\* the tokens login has issued to the accounts that exist
IssuedTokens == {Sign(u._id, JWT_SECRET, TokenTTL) : u \in users}

----------------------------------------------------------------------------
(* Upload middleware: multerConfig (src/unnamed/part_001, lines 87-103) *)

\* destination calls cb twice: a copy is written under each directory, and the
\* file object keeps the path of the copy that finishes last
Destinations == {"uploads", "public"}
Times == {"t1"}

\* path.join(destination, `${Date.now()}-${file.originalname}`)
FilePath(dir, ts, name) == <<dir, ts, name>>

Written(upload, ts) ==
  {FilePath(d, ts, upload[i]) : d \in Destinations, i \in 1..Len(upload)}

\* req.files after upload.array('images', 10)
Multer(upload, dirs, ts) ==
  [i \in 1..Len(upload) |->
     [originalname |-> upload[i], path |-> FilePath(dirs[i], ts, upload[i])]]

\* mutant: the paths are collected in reverse
ImagesOfReversed(files) == [i \in 1..Len(files) |-> files[Len(files) + 1 - i].path]

\* req.files.map((file) => file.path)
ImagesOf(files) == [i \in 1..Len(files) |-> files[i].path]

\* mutant: the upload middleware is mounted in front of the gate
DiskAfterUploadFirst(passed, written) == disk \cup written

\* router.<verb>(path, authMiddleware, upload.array('images', 10), handler):
\* the upload middleware runs only behind the gate
DiskAfter(passed, written) == IF passed THEN disk \cup written ELSE disk

----------------------------------------------------------------------------
(* Car model: ../models/car *)

SchemaPaths == {"title", "description", "tags", "images", "userId"}
RequiredPaths == {"title", "description", "userId"}

\* strict schema: unknown fields are dropped
Cast(obj) == Pick(obj, SchemaPaths)

Validate(obj) == RequiredPaths \subseteq DOMAIN obj

\* Car.create(obj)
CarCreate(obj) ==
  IF Validate(Cast(obj))
    THEN [ok |-> TRUE,
          car |-> Spread([tags |-> <<>>, images |-> <<>>],
                         Spread(Cast(obj), [_id |-> carSeq]))]
    ELSE [ok |-> FALSE, error |-> "Car validation failed"]

\* Car.find(filter) on the owner
FindByOwner(store, userId) == {store[i] : i \in {j \in DOMAIN store : store[j].userId = userId}}

\* mutant: the filter leaves out userId
MatchById(store, id, userId) == {i \in DOMAIN store : i = id}

\* the document matching { _id: id, userId: userId }
Match(store, id, userId) == {i \in DOMAIN store : i = id /\ store[i].userId = userId}

----------------------------------------------------------------------------
(* Regular expressions: new RegExp(keyword, 'i') *)

Folded == [A |-> "a", B |-> "b", C |-> "c", D |-> "d", S |-> "s"]

\* the canonical form the 'i' flag compares characters in
Fold(c) == IF c \in DOMAIN Folded THEN Folded[c] ELSE c

\* new RegExp(undefined) is /(?:)/; an unterminated group is a SyntaxError
Compile(keyword) ==
  IF ~keyword.given THEN [ok |-> TRUE, pattern |-> <<>>]
  ELSE IF \E i \in 1..Len(keyword.value) : keyword.value[i] = "("
    THEN [ok |-> FALSE, error |-> "Invalid regular expression"]
    ELSE [ok |-> TRUE, pattern |-> keyword.value]

\* regex.test(s): the pattern matches at some offset; "." matches any character
Test(pattern, s) ==
  \E off \in 0..(Len(s) - Len(pattern)) :
    \A i \in 1..Len(pattern) :
      pattern[i] = "." \/ Fold(pattern[i]) = Fold(s[off + i])

\* { field: regex } on a string field, and on an array field (any element)
TestAny(pattern, seq) == \E i \in 1..Len(seq) : Test(pattern, seq[i])

----------------------------------------------------------------------------
(* Car routes: src/unnamed/part_001, lines 1-85 *)

\* { ...req.body, images, userId: req.userId }
CreateObject(body, images, userId) ==
  Spread(body, [images |-> images, userId |-> userId])

CreateResponse(created) ==
  IF created.ok
    THEN Answer(201, created.car)
    ELSE Answer(400, [message |-> "Error creating car", error |-> created.error])

CreateCar(auth, body, upload, dirs, ts) ==
  LET request == Request("create", [auth |-> auth, body |-> body, upload |-> upload]) IN
    IF ~Verify(auth)
      THEN /\ Respond(request, Unauthorized)
           /\ disk' = DiskAfter(FALSE, Written(upload, ts))
           /\ UNCHANGED <<users, cars, carSeq>>
      ELSE LET files == Multer(upload, dirs, ts)
               created == CarCreate(CreateObject(body, ImagesOf(files), auth.token.id))
           IN /\ Respond(Spread(request, [files |-> files]), CreateResponse(created))
              /\ disk' = DiskAfter(TRUE, Written(upload, ts))
              /\ cars' = IF created.ok THEN (carSeq :> created.car) @@ cars ELSE cars
              /\ carSeq' = IF created.ok THEN carSeq + 1 ELSE carSeq
              /\ UNCHANGED users

\* Car.find({ userId: req.userId })
ListResponse(store, userId) == Answer(200, FindByOwner(store, userId))

ListCars(auth) ==
  /\ Respond(Request("list", [auth |-> auth]),
             IF Verify(auth) THEN ListResponse(cars, auth.token.id) ELSE Unauthorized)
  /\ UNCHANGED <<users, cars, carSeq, disk>>

\* Car.find({ userId, $or: [{ title: re }, { description: re }, { tags: re }] })
SearchResponse(store, userId, keyword) ==
  LET re == Compile(keyword) IN
    IF ~re.ok
      THEN Answer(400, [message |-> "Error searching cars", error |-> re.error])
      ELSE Answer(200, {c \in FindByOwner(store, userId) :
                          \/ Test(re.pattern, c.title)
                          \/ Test(re.pattern, c.description)
                          \/ TestAny(re.pattern, c.tags)})

SearchCars(auth, keyword) ==
  /\ Respond(Request("search", [auth |-> auth, keyword |-> keyword]),
             IF Verify(auth) THEN SearchResponse(cars, auth.token.id, keyword)
                             ELSE Unauthorized)
  /\ UNCHANGED <<users, cars, carSeq, disk>>

\* mutant: the owner is not compared
DetailResponseAnyOwner(store, id, userId) ==
  IF id \notin DOMAIN store
    THEN Answer(404, [message |-> "Car not found"])
    ELSE Answer(200, store[id])

\* Car.findById(id); !car || car.userId.toString() !== req.userId
DetailResponse(store, id, userId) ==
  IF id \notin DOMAIN store \/ store[id].userId # userId
    THEN Answer(404, [message |-> "Car not found"])
    ELSE Answer(200, store[id])

CarDetail(auth, id) ==
  /\ Respond(Request("detail", [auth |-> auth, id |-> id]),
             IF Verify(auth) THEN DetailResponse(cars, id, auth.token.id) ELSE Unauthorized)
  /\ UNCHANGED <<users, cars, carSeq, disk>>

\* { ...req.body, ...(images.length && { images }) }
UpdateObject(body, images) ==
  IF Len(images) # 0 THEN Spread(body, [images |-> images]) ELSE body

\* Car.findOneAndUpdate({ _id, userId }, update, { new: true }): the store after
FindOneAndUpdate(store, id, userId, update) ==
  IF Match(store, id, userId) = {}
    THEN store
    ELSE [store EXCEPT ![id] = Spread(store[id], Cast(update))]

\* ... and the document it returns (null when nothing matches)
UpdateResponse(store, id, userId, update) ==
  IF Match(store, id, userId) = {}
    THEN Answer(200, Null)
    ELSE Answer(200, FindOneAndUpdate(store, id, userId, update)[id])

UpdateCar(auth, id, body, upload, dirs, ts) ==
  LET request == Request("update", [auth |-> auth, id |-> id, body |-> body,
                                    upload |-> upload]) IN
    IF ~Verify(auth)
      THEN /\ Respond(request, Unauthorized)
           /\ disk' = DiskAfter(FALSE, Written(upload, ts))
           /\ UNCHANGED <<users, cars, carSeq>>
      ELSE LET files == Multer(upload, dirs, ts)
               update == UpdateObject(body, ImagesOf(files))
           IN /\ Respond(Spread(request, [files |-> files]),
                         UpdateResponse(cars, id, auth.token.id, update))
              /\ disk' = DiskAfter(TRUE, Written(upload, ts))
              /\ cars' = FindOneAndUpdate(cars, id, auth.token.id, update)
              /\ UNCHANGED <<users, carSeq>>

\* Car.findOneAndDelete({ _id, userId }): the store after
FindOneAndDelete(store, id, userId) ==
  [i \in (DOMAIN store) \ Match(store, id, userId) |-> store[i]]

\* mutant: a delete that matches nothing is an error
DeleteResponseNotFound(store, id, userId) ==
  IF Match(store, id, userId) = {}
    THEN Answer(404, [message |-> "Car not found"])
    ELSE Answer(200, [message |-> "Car deleted"])

DeleteResponse(store, id, userId) == Answer(200, [message |-> "Car deleted"])

DeleteCar(auth, id) ==
  LET request == Request("delete", [auth |-> auth, id |-> id]) IN
    IF ~Verify(auth)
      THEN /\ Respond(request, Unauthorized)
           /\ UNCHANGED <<users, cars, carSeq, disk>>
      ELSE /\ Respond(request, DeleteResponse(cars, id, auth.token.id))
           /\ cars' = FindOneAndDelete(cars, id, auth.token.id)
           /\ UNCHANGED <<users, carSeq, disk>>

----------------------------------------------------------------------------
(* The service from an empty database, every route, requests without files *)

Init ==
  /\ users = {}
  /\ cars = EmptyObject
  /\ carSeq = 1
  /\ disk = {}
  /\ req = Request("none", EmptyObject)
  /\ res = Answer(0, Null)
  /\ repeat = FALSE

\* what callers present under Spec: a fresh token of an account, or none
Callers == {Auth(t, 0) : t \in IssuedTokens \cup {NoToken}}
Bodies == {BodyFull} \cup {BodyOwner(u) : u \in UserIds}
Keywords == {NoKeyword} \cup {Keyword(s) : s \in {<<>>, <<"D">>, <<".">>, <<"(">>}}
NoDirs == [i \in {} |-> "public"]

Next ==
  \/ \E c \in Credentials : Signup(c[1], c[2])
  \/ \E u \in Usernames, p \in Passwords : Login(u, p)
  \/ /\ carSeq <= MaxCars
     /\ \E a \in Callers, b \in Bodies, t \in Times : CreateCar(a, b, <<>>, NoDirs, t)
  \/ \E a \in Callers : ListCars(a)
  \/ \E a \in Callers, k \in Keywords : SearchCars(a, k)
  \/ \E a \in Callers, i \in CarIds : CarDetail(a, i)
  \/ \E a \in Callers, i \in CarIds, b \in Bodies, t \in Times :
       UpdateCar(a, i, b, <<>>, NoDirs, t)
  \/ \E a \in Callers, i \in CarIds : DeleteCar(a, i)

Spec == Init /\ [][Next]_vars

----------------------------------------------------------------------------
(* One account with a fresh token: requests with and without image files *)

UploadCallers == {Auth(t, 0) : t \in IssuedTokens}
UploadBodies == {BodyFull, BodyTitle, BodyImages, EmptyObject}
Uploads == {<<>>, <<"b.png", "a.png">>}
UploadIds == 1..MaxUploads

UploadNext ==
  \/ Signup("alice", "pw1")
  \/ /\ carSeq <= MaxUploads
     /\ \E a \in UploadCallers, b \in UploadBodies, f \in Uploads, t \in Times :
          /\ Len(f) <= MaxCount
          /\ \E d \in [1..Len(f) -> Destinations] : CreateCar(a, b, f, d, t)
  \/ \E a \in UploadCallers, i \in UploadIds : CarDetail(a, i)
  \/ \E a \in UploadCallers, i \in UploadIds, b \in UploadBodies, f \in Uploads,
        t \in Times :
       /\ Len(f) <= MaxCount
       /\ \E d \in [1..Len(f) -> Destinations] : UpdateCar(a, i, b, f, d, t)

UploadSpec == Init /\ [][UploadNext]_vars

----------------------------------------------------------------------------
(* One account, every kind of token, on every car route *)

GateCallers ==
  {Auth(t, 0) : t \in IssuedTokens \cup {NoToken, Malformed}
                       \cup {Sign(u._id, "guess", TokenTTL) : u \in users}}
    \cup {Auth(t, TokenTTL) : t \in IssuedTokens}

GateNext ==
  \/ Signup("alice", "pw1")
  \/ /\ carSeq <= MaxUploads
     /\ \E a \in GateCallers, f \in Uploads, t \in Times :
          /\ Len(f) <= MaxCount
          /\ \E d \in [1..Len(f) -> Destinations] : CreateCar(a, BodyFull, f, d, t)
  \/ \E a \in GateCallers : ListCars(a)
  \/ \E a \in GateCallers : SearchCars(a, NoKeyword)
  \/ \E a \in GateCallers, i \in UploadIds : CarDetail(a, i)
  \/ \E a \in GateCallers, i \in UploadIds, f \in Uploads, t \in Times :
       /\ Len(f) <= MaxCount
       /\ \E d \in [1..Len(f) -> Destinations] : UpdateCar(a, i, BodyTitle, f, d, t)
  \/ \E a \in GateCallers, i \in UploadIds : DeleteCar(a, i)

GateSpec == Init /\ [][GateNext]_vars

----------------------------------------------------------------------------
(* Properties *)

CarOps == {"create", "list", "search", "detail", "update", "delete"}

\* the request answered last passed the gate
Authentic(r) == r.op \in CarOps /\ Verify(r.auth)

NotFound == Answer(404, [message |-> "Car not found"])

\* C1: a caller who is not the owner of a car gets from detail the 404 'Car not
\* found' that an id matching no car gets, and never sees the car in list.
C1_ForeignCarHidden ==
  /\ \A i \in DOMAIN cars, u \in users :
       u._id # cars[i].userId =>
         /\ DetailResponse(cars, i, u._id) = NotFound
         /\ DetailResponse(cars, carSeq, u._id) = NotFound
         /\ cars[i] \notin ListResponse(cars, u._id).body
  /\ (req.op = "detail" /\ Authentic(req) /\ req.id \in DOMAIN cars
        /\ cars[req.id].userId # req.auth.token.id) => res = NotFound
  /\ (req.op = "list" /\ Authentic(req)) =>
       \A c \in res.body : c.userId = req.auth.token.id

C1_Witness ==
  /\ req.op = "detail" /\ Authentic(req)
  /\ req.id \in DOMAIN cars
  /\ cars[req.id].userId # req.auth.token.id
  /\ res.status = 404

\* C2: the owner reference of a car is the identity of the caller who created
\* it, and no update by the owner changes it, whatever the request body holds.
C2_OwnerNeverReassigned ==
  [][/\ (req'.op = "create" /\ Authentic(req') /\ res'.status = 201) =>
          cars'[res'.body._id].userId = req'.auth.token.id
     /\ (req'.op = "update" /\ Authentic(req')) =>
          \A i \in DOMAIN cars : i \in DOMAIN cars' /\ cars'[i].userId = cars[i].userId
    ]_vars

\* C3: login answers 401 'Invalid credentials' without a token, and the same
\* response, for a wrong password of an account and for a username of no account.
InvalidCredentials == Answer(401, [message |-> "Invalid credentials"])

C4_RejectedBeforeStorage ==
  [][(req'.op \in CarOps /\ ~Verify(req'.auth)) =>
       /\ res' = Unauthorized
       /\ cars' = cars /\ carSeq' = carSeq /\ users' = users
       /\ disk' = disk
    ]_vars

C4_Witness ==
  /\ req.op \in {"create", "update"}
  /\ req.auth.token \in IssuedTokens /\ req.auth.age >= TokenTTL
  /\ Len(req.upload) > 0
  /\ res = Unauthorized
  /\ disk = {}

\* C5: delete by an authenticated caller answers 200 'Car deleted' whether or
\* not a car matched, also when it repeats the delete before it, and the
\* caller's list afterwards holds no car of that id.
C5_DeleteIdempotent ==
  (req.op = "delete" /\ Authentic(req)) =>
    /\ res = Answer(200, [message |-> "Car deleted"])
    /\ \A c \in ListResponse(cars, req.auth.token.id).body : c._id # req.id

C5_Witness ==
  /\ req.op = "delete" /\ Authentic(req) /\ repeat
  /\ req.id < carSeq /\ req.id \notin DOMAIN cars
  /\ res.status = 200

C7_UpdateMissIsNoOp ==
  [][(req'.op = "update" /\ Authentic(req')
        /\ ~(req'.id \in DOMAIN cars /\ cars[req'.id].userId = req'.auth.token.id)) =>
       /\ res' = Answer(200, Null)
       /\ cars' = cars /\ carSeq' = carSeq
    ]_vars

C7_Witness ==
  /\ req.op = "update" /\ Authentic(req)
  /\ req.id \in DOMAIN cars
  /\ cars[req.id].userId # req.auth.token.id
  /\ res = Answer(200, Null)

\* C8: an update by the owner replaces the images by the paths of the new files
\* when files were uploaded and leaves the images alone when none were; title,
\* description and tags are replaced when given and kept when not.
C8_UpdateFrame ==
  [][(req'.op = "update" /\ Authentic(req') /\ res'.body # Null) =>
       LET old == cars[req'.id]
           new == cars'[req'.id]
       IN /\ new.images = IF Len(req'.upload) > 0 THEN ImagesOf(req'.files)
                                                 ELSE old.images
          /\ \A f \in {"title", "description", "tags"} :
               new[f] = IF f \in DOMAIN req'.body THEN req'.body[f] ELSE old[f]
    ]_vars

\* k occurs in s as a substring, letters compared without case
Contains(s, k) ==
  \E off \in 0..(Len(s) - Len(k)) : \A i \in 1..Len(k) : Fold(k[i]) = Fold(s[off + i])

\* C9: search returns exactly the caller's cars whose title, description or one
\* of whose tags contains the keyword as a case-insensitive substring; an empty
\* or absent keyword returns all the caller's cars.
C9_SearchIsSubstring ==
  (req.op = "search" /\ Authentic(req)) =>
    LET k == IF req.keyword.given THEN req.keyword.value ELSE <<>> IN
      /\ res.status = 200
      /\ res.body = {c \in FindByOwner(cars, req.auth.token.id) :
                       \/ Contains(c.title, k)
                       \/ Contains(c.description, k)
                       \/ \E t \in 1..Len(c.tags) : Contains(c.tags[t], k)}
      /\ (k = <<>>) => res.body = ListResponse(cars, req.auth.token.id).body

\* C10: no create, update or delete of a caller changes what list returns to
\* another account.
C10_WriteIsolation ==
  [][(req'.op \in {"create", "update", "delete"} /\ Authentic(req')) =>
       \A v \in users :
         v._id # req'.auth.token.id =>
           ListResponse(cars', v._id) = ListResponse(cars, v._id)
    ]_vars
====
